---------------------------- MODULE Spec2Model ----------------------------
(***************************************************************************)
(* A model of agate's connection pipeline (src/src/main.rs):                *)
(* RequestHandle::new, handle, parse_request, send_response,                *)
(* list_directory and send_header, for one connection task, and the         *)
(* Mutex-guarded FileOptions shared by several tasks.                       *)
(*                                                                         *)
(* Paths and path separators are those of a Unix build: '/' is the only     *)
(* separator and there are no drive prefixes.                               *)
(***************************************************************************)
EXTENDS Integers, Sequences, FiniteSets, TLC

(***************************************************************************)
(* Bounds.  ReqLimit stands for the 1024 bytes a request may have before    *)
(* its CRLF; the buffer of parse_request holds ReqLimit + 2 bytes, as the   *)
(* code's 1026 = 1024 + 2.                                                  *)
(***************************************************************************)
ReqLimit == 2

MaxPathChars == 3

NTasks == 2

MaxEntries == 3

BufSize == ReqLimit + 2

LocalPort == 1965

OtherPort == LocalPort + 1

(***************************************************************************)
(* Bytes on the wire: CR, LF, a byte "u" of valid UTF-8 text and a byte     *)
(* "x" that never occurs in valid UTF-8 (such as 0xFF).                     *)
(***************************************************************************)
Byte == {"CR", "LF", "u", "x"}

SeqsUpTo(S, n) == UNION {[1..k -> S] : k \in 0..n}

Streams == SeqsUpTo(Byte, BufSize + 1)

\* request[..len].ends_with(b"\r\n")
EndsWithCRLF(b) ==
    /\ Len(b) >= 2
    /\ b[Len(b) - 1] = "CR"
    /\ b[Len(b)] = "LF"

\* std::str::from_utf8
ValidUtf8(b) == \A i \in 1..Len(b) : b[i] # "x"

\* the number of bytes of s before its first CRLF; Len(s) + 1 when it has none
RECURSIVE FirstCRLF(_, _)
FirstCRLF(s, i) ==
    IF i + 1 > Len(s) THEN Len(s) + 1
    ELSE IF s[i] = "CR" /\ s[i + 1] = "LF" THEN i - 1
    ELSE FirstCRLF(s, i + 1)

BytesBeforeCRLF(s) == FirstCRLF(s, 1)

(***************************************************************************)
(* URLs as url::Url yields them.  A URL path segment is a sequence of raw   *)
(* characters: a letter, a dot, or one of the percent escapes %2E (dot),    *)
(* %2F (slash) and %FF (a byte that is not UTF-8).  Url::parse resolves     *)
(* the dot segments ".", "..", and their %2E spellings, so path_segments    *)
(* never yields them.                                                      *)
(***************************************************************************)
RawChar == {"a", ".", "%2E", "%2F", "%FF"}

IsDotChar(c) == c \in {".", "%2E"}

IsDotSegment(s) ==
    /\ Len(s) \in {1, 2}
    /\ \A i \in 1..Len(s) : IsDotChar(s[i])

Segments == {s \in SeqsUpTo(RawChar, MaxPathChars) : ~IsDotSegment(s)}

\* Option values are sequences: <<>> is None, <<v>> is Some(v).
None == <<>>

Some(v) == <<v>>

IsSome(o) == Len(o) = 1

\* url.path_segments(): None for the empty path, else the path split at '/'
PathSegments ==
    {None}
    \cup {Some(<<s>>) : s \in Segments}
    \cup {Some(p) : p \in {q \in Segments \X Segments :
                                Len(q[1]) + Len(q[2]) <= MaxPathChars}}

Hosts == {"h1", "h2", "h3"}

Url(scheme, username, password, fragment, host, port, segs) ==
    [scheme |-> scheme, username |-> username, password |-> password,
     fragment |-> fragment, host |-> host, port |-> port, segments |-> segs]

\* every combination of the validated fields, with the path "/a"
HeadUrls ==
    {Url(sc, un, pw, fr, h, p, Some(<<(<<"a">>)>>)) :
        sc \in {"gemini", "https"}, un \in {"", "user"},
        pw \in {None, Some("pw")}, fr \in {None, Some("frag")},
        h \in {None} \cup {Some(x) : x \in Hosts},
        p \in {None, Some(LocalPort), Some(OtherPort)}}

\* every path, on a URL without userinfo, fragment or port
PathUrls ==
    {Url("gemini", "", None, None, Some("h1"), None, segs) :
        segs \in PathSegments}

NoUrl == Url("", "", None, None, None, None, None)

(***************************************************************************)
(* Percent decoding and std::path on decoded text.  Decoded characters are  *)
(* "a", ".", "/" and "FF", the byte that makes decode_utf8 fail.            *)
(***************************************************************************)
DecodeChar(c) ==
    CASE c = "%2E" -> "."
      [] c = "%2F" -> "/"
      [] c = "%FF" -> "FF"
      [] OTHER -> c

\* percent_decode_str(segment)
percent_decode(segment) == [i \in 1..Len(segment) |-> DecodeChar(segment[i])]

\* .decode_utf8() succeeds
decode_utf8_ok(bytes) == \A i \in 1..Len(bytes) : bytes[i] # "FF"

\* path::is_separator
is_separator(c) == c = "/"

\* the pieces of s between separators, empty pieces included
RECURSIVE SplitAt(_, _, _)
SplitAt(s, i, cur) ==
    IF i > Len(s) THEN <<cur>>
    ELSE IF is_separator(s[i]) THEN <<cur>> \o SplitAt(s, i + 1, <<>>)
    ELSE SplitAt(s, i + 1, Append(cur, s[i]))

Pieces(s) == SplitAt(s, 1, <<>>)

Component(kind, name) == [kind |-> kind, name |-> name]

\* the components of the pieces after the first: "" and "." are skipped
RECURSIVE BodyComponents(_, _)
BodyComponents(ps, i) ==
    IF i > Len(ps) THEN <<>>
    ELSE IF ps[i] = <<>> \/ ps[i] = <<".">> THEN BodyComponents(ps, i + 1)
    ELSE IF ps[i] = <<".", ".">>
        THEN <<Component("ParentDir", ps[i])>> \o BodyComponents(ps, i + 1)
    ELSE <<Component("Normal", ps[i])>> \o BodyComponents(ps, i + 1)

\* Path::new(s).components(): a leading '/' is RootDir, a leading "." is
\* CurDir, and every later "." and every empty piece is normalised away
components(s) ==
    IF s = <<>> THEN <<>>
    ELSE LET ps == Pieces(s) IN
        IF is_separator(s[1])
            THEN <<Component("RootDir", <<"/">>)>> \o BodyComponents(ps, 2)
        ELSE IF ps[1] = <<".">>
            THEN <<Component("CurDir", ps[1])>> \o BodyComponents(ps, 2)
        ELSE BodyComponents(ps, 1)

\* PathBuf::push: an absolute argument replaces the path
push(path, c) ==
    IF c # <<>> /\ is_separator(c[1]) THEN c
    ELSE path \o <<"/">> \o c

content_dir == <<"content">>

(***************************************************************************)
(* ARGS: the configuration, fixed at startup.                               *)
(***************************************************************************)
Args(hostnames, serve_secret, log_ips) ==
    [hostnames |-> hostnames, serve_secret |-> serve_secret, log_ips |-> log_ips]

Hostnames == {<<>>, <<"h1">>, <<"h1", "h2">>}

InSeq(x, s) == \E i \in 1..Len(s) : s[i] = x

(***************************************************************************)
(* PresetMeta, the answer of FileOptions::get.                              *)
(***************************************************************************)
PresetMeta(kind, status, text) == [kind |-> kind, status |-> status, text |-> text]

\* PresetMeta::Parameters built from ARGS.language
default == PresetMeta("Parameters", 0, <<";lang=en">>)

Presets ==
    {PresetMeta("FullHeader", 20, <<"text/plain">>),
     PresetMeta("FullHeader", 51, <<"Gone">>),
     PresetMeta("FullMime", 0, <<"text/x-preset">>),
     default}

(***************************************************************************)
(* State.                                                                   *)
(***************************************************************************)
VARIABLES
    ARGS,        \* the configuration
    stream,      \* the bytes the client sends on this connection
    parsed,      \* what Url::parse makes of the request text: None or Some(url)
    pc,          \* where the connection task is
    request,     \* the bytes read into parse_request's buffer so far
    log_line,    \* self.log_line: the fields written so far
    url,         \* the validated URL send_response works on
    path,        \* the PathBuf of send_response
    data,        \* the PresetMeta got for path
    file,        \* the contents of the opened file
    entries,     \* the entries read_dir yields for a directory, in its order
    wire,        \* what was written to the TLS stream, in order
    write_failed,\* a write to the TLS stream failed
    ret,         \* the Result of parse_request, send_response or send_header
    fsops,       \* the metadata lookups and filesystem calls made, with their paths
    logged,      \* the records main wrote to the log
    mutex,       \* the Mutex around FileOptions: the task holding it, or None
    cache,       \* FileOptions: for each directory, None or Some(rules read so far)
    parses,      \* how many times each directory's configuration was parsed
    tpc,         \* where each task is with its metadata lookups
    tdir,        \* the governing directory of each task's current lookup
    seen,        \* the rule sets each task's lookups observed
    listening,   \* main's accept loop is running
    others       \* where the task of each other accepted connection is

conn_vars ==
    <<ARGS, stream, parsed, entries, pc, request, log_line, url, path, data,
      file, wire, write_failed, ret, fsops, logged>>

meta_vars == <<mutex, cache, parses, tpc, tdir, seen>>

main_vars == <<listening, others>>

len == Len(request)

Field(name, value) == [field |-> name, value |-> value]

Meta(text) == [text |-> text, url |-> None]

Header(status, meta) == [kind |-> "header", status |-> status, meta |-> meta]

Body(kind, bytes) == [kind |-> kind, status |-> 0, meta |-> Meta(bytes)]

Ok == [ok |-> TRUE, status |-> 0, meta |-> Meta(<<>>), error |-> ""]

Err(error) == [ok |-> FALSE, status |-> 0, meta |-> Meta(<<>>), error |-> error]

\* the Err((status, msg)) of parse_request
Refuse(status, msg) ==
    [ok |-> FALSE, status |-> status, meta |-> Meta(<<msg>>), error |-> ""]

\* a lookup or filesystem call, the path it was given and what it answered
Op(op, p, answer) == [op |-> op, path |-> p, answer |-> answer]

(***************************************************************************)
(* parse_request: the checks on the parsed URL, in the code's order.        *)
(***************************************************************************)
\* ARGS.hostnames.is_empty() || ARGS.hostnames.iter().any(|h| h == &host)
HostAllowed(host) == ARGS.hostnames = <<>> \/ InSeq(host, ARGS.hostnames)

\* the checks with the userinfo and fragment check moved before the scheme's
validate_userinfo_first(u) ==
    IF IsSome(u.password) \/ u.username # "" \/ IsSome(u.fragment)
        THEN Refuse(59, "URL contains fragment or userinfo")
    ELSE IF u.scheme # "gemini" THEN Refuse(53, "Unsupported URL scheme")
    ELSE IF ~IsSome(u.host) THEN Refuse(59, "URL does not contain a host")
    ELSE IF ~HostAllowed(u.host[1]) THEN Refuse(53, "Proxy request refused")
    ELSE IF IsSome(u.port) /\ u.port[1] # LocalPort
        THEN Refuse(53, "proxy request refused")
    ELSE Ok

\* parse_request after Url::parse: Ok, or the Err((status, msg)) of the first
\* check that fails
validate(u) ==
    IF u.scheme # "gemini" THEN Refuse(53, "Unsupported URL scheme")
    ELSE IF IsSome(u.password) \/ u.username # "" \/ IsSome(u.fragment)
        THEN Refuse(59, "URL contains fragment or userinfo")
    ELSE IF ~IsSome(u.host) THEN Refuse(59, "URL does not contain a host")
    ELSE IF ~HostAllowed(u.host[1]) THEN Refuse(53, "Proxy request refused")
    ELSE IF IsSome(u.port) /\ u.port[1] # LocalPort
        THEN Refuse(53, "proxy request refused")
    ELSE Ok

(***************************************************************************)
(* send_response: the loop over the URL path segments.                      *)
(***************************************************************************)
\* what one segment does to the path: the outcome is "next" (go on to the
\* next segment), "reject" (send 51) or "utf8" (decode_utf8 failed)
Step(outcome, p) == [outcome |-> outcome, path |-> p]

\* the Some(Component::Normal(c)) => path.push(c) arm
PushNormal(p, c) == push(p, c.name)

\* a test for a trailing separator that never finds one
NoTrailingSeparator(decoded) == FALSE

\* decoded.ends_with(path::is_separator)
EndsWithSeparator(decoded) ==
    decoded # <<>> /\ is_separator(decoded[Len(decoded)])

\* the loop body without its checks: the decoded segment is pushed as it is
SegmentStepUnchecked(p, segment) ==
    LET decoded == percent_decode(segment) IN
    IF ~decode_utf8_ok(decoded) THEN Step("utf8", p)
    ELSE Step("next", push(p, decoded))

\* the body of `for segment in segments.clone()`
SegmentStep(p, segment) ==
    LET decoded == percent_decode(segment) IN
    IF ~decode_utf8_ok(decoded) THEN Step("utf8", p)
    ELSE LET cs == components(decoded)
             p1 == IF cs # <<>> /\ cs[1].kind = "Normal"
                       THEN PushNormal(p, cs[1]) ELSE p
         IN  IF cs # <<>> /\ cs[1].kind # "Normal" THEN Step("reject", p1)
             ELSE IF Len(cs) > 1 THEN Step("reject", p1)
             ELSE IF EndsWithSeparator(decoded) THEN Step("reject", p1)
             ELSE Step("next", p1)

RECURSIVE Walk(_, _, _)
Walk(p, segs, i) ==
    IF i > Len(segs) THEN Step("next", p)
    ELSE LET r == SegmentStep(p, segs[i]) IN
         IF r.outcome = "next" THEN Walk(r.path, segs, i + 1) ELSE r

\* let mut path = PathBuf::from(&ARGS.content_dir), with the vhost directory
BasePath(u) ==
    IF Len(ARGS.hostnames) > 1 THEN push(content_dir, <<u.host[1]>>)
    ELSE content_dir

\* segments.any(|segment| segment.starts_with('.'))
starts_with_dot(segment) == segment # <<>> /\ segment[1] = "."

AnyHidden(segs) == \E i \in 1..Len(segs) : starts_with_dot(segs[i])

\* url.path().ends_with('/') || url.path().is_empty()
EndsWithSlashOrEmpty(u) ==
    \/ ~IsSome(u.segments)
    \/ u.segments[1][Len(u.segments[1])] = <<>>

\* a redirect to the request URL as it is
WithSamePath(u) == u

\* url.set_path(&format!("{}/", url.path()))
WithTrailingSlash(u) ==
    [u EXCEPT !.segments = Some(Append(u.segments[1], <<>>))]

index_gmi == <<"index.gmi">>

listing_ok == <<".directory-listing-ok">>

\* Path::with_file_name on a path whose last component is index.gmi
with_file_name(p, name) == SubSeq(p, 1, Len(p) - 1) \o name

\* a pop that leaves the path as it is
pop_nothing(p) == p

\* PathBuf::pop of a path whose last component is one name
pop(p) == SubSeq(p, 1, Len(p) - 2)

(***************************************************************************)
(* RequestHandle::new                                                       *)
(***************************************************************************)
local_addr == "local"

\* stream.peer_addr() failed: the task ends with the 01 log line
NewPeerError ==
    /\ pc = "new"
    /\ ARGS.log_ips
    /\ logged' = Append(logged,
            [level |-> "warn",
             line |-> <<Field("local", local_addr), Field("peer", "-"),
                        Field("request", <<>>), Field("status", 1),
                        Field("meta", Meta(<<"IP error">>)),
                        Field("error", "could not get peer address")>>])
    /\ pc' = "closed"
    /\ UNCHANGED <<main_vars, meta_vars, ARGS, stream, parsed, entries, request, log_line, url, path, data,
                   file, wire, write_failed, ret, fsops>>

\* a handshake failure that is returned out of main's accept loop
NewProcessFatal ==
    /\ pc = "new"
    /\ LET peer_addr == IF ARGS.log_ips THEN "ip" ELSE "-"
           line == <<Field("local", local_addr), Field("peer", peer_addr)>>
       IN \E accepted \in BOOLEAN :
            IF accepted
            THEN /\ log_line' = line
                 /\ pc' = "parse_request"
                 /\ logged' = logged
                 /\ listening' = listening
            ELSE /\ log_line' = log_line
                 /\ pc' = "closed"
                 /\ listening' = FALSE
                 /\ logged' = Append(logged,
                        [level |-> "warn",
                         line |-> line \o <<Field("request", <<>>),
                                            Field("status", 0),
                                            Field("meta", Meta(<<"TLS error">>)),
                                            Field("error", "tls")>>])
    /\ UNCHANGED <<others, meta_vars, ARGS, stream, parsed, entries, request,
                   url, path, data, file, wire, write_failed, ret, fsops>>

\* the peer address is known or not wanted, and TLS.accept(stream) answers
New ==
    /\ pc = "new"
    /\ LET peer_addr == IF ARGS.log_ips THEN "ip" ELSE "-"
           line == <<Field("local", local_addr), Field("peer", peer_addr)>>
       IN \E accepted \in BOOLEAN :
            IF accepted
            THEN /\ log_line' = line
                 /\ pc' = "parse_request"
                 /\ logged' = logged
            ELSE /\ log_line' = log_line
                 /\ pc' = "closed"
                 /\ logged' = Append(logged,
                        [level |-> "warn",
                         line |-> line \o <<Field("request", <<>>),
                                            Field("status", 0),
                                            Field("meta", Meta(<<"TLS error">>)),
                                            Field("error", "tls")>>])
    /\ UNCHANGED <<main_vars, meta_vars, ARGS, stream, parsed, entries, request, url, path, data, file, wire,
                   write_failed, ret, fsops>>

(***************************************************************************)
(* parse_request: the read loop.  The client has delivered len bytes of     *)
(* stream; a read takes any positive number of the bytes that follow, up    *)
(* to the room left in the buffer.                                          *)
(***************************************************************************)
\* a loop that takes a full buffer for a complete request
LoopExitWhenFull(b, bytes_read) ==
    IF EndsWithCRLF(b) \/ Len(b) = BufSize THEN "ok"
    ELSE IF bytes_read = 0 THEN "err"
    ELSE "continue"

\* whether the loop goes on after a read that made the buffer b
LoopExit(b, bytes_read) ==
    IF EndsWithCRLF(b) THEN "ok"
    ELSE IF bytes_read = 0 THEN "err"
    ELSE "continue"

\* a loop without the exit on a read of no bytes
AfterReadUnchecked(b, bytes_read) ==
    /\ request' = b
    /\ IF EndsWithCRLF(b)
       THEN pc' = "read_done" /\ ret' = Ok
       ELSE pc' = "parse_request" /\ ret' = ret

\* len += bytes_read, and the tests that end the loop
AfterRead(b, bytes_read) ==
    /\ request' = b
    /\ CASE LoopExit(b, bytes_read) = "ok" ->
                pc' = "read_done" /\ ret' = Ok
         [] LoopExit(b, bytes_read) = "err" ->
                pc' = "read_done" /\ ret' = Refuse(59, "Request ended unexpectedly")
         [] OTHER -> pc' = "parse_request" /\ ret' = ret

\* self.stream.read(buf) returns Ok(n) with n > 0
Read ==
    /\ pc = "parse_request"
    /\ \E n \in 1..BufSize :
        /\ n <= BufSize - len
        /\ n <= Len(stream) - len
        /\ AfterRead(SubSeq(stream, 1, len + n), n)
    /\ UNCHANGED <<main_vars, meta_vars, ARGS, stream, parsed, entries, log_line, url, path, data, file, wire,
                   write_failed, fsops, logged>>

\* self.stream.read(buf) returns Ok(0): the buffer has no room left, or the
\* client closed after its last byte
ReadZero ==
    /\ pc = "parse_request"
    /\ len = BufSize \/ len = Len(stream)
    /\ AfterRead(request, 0)
    /\ UNCHANGED <<main_vars, meta_vars, ARGS, stream, parsed, entries, log_line, url, path, data, file, wire,
                   write_failed, fsops, logged>>

\* self.stream.read(buf) returns Err
ReadError ==
    /\ pc = "parse_request"
    /\ pc' = "read_done"
    /\ ret' = Refuse(59, "Request ended unexpectedly")
    /\ UNCHANGED <<main_vars, meta_vars, ARGS, stream, parsed, entries, request, log_line, url, path, data,
                   file, wire, write_failed, fsops, logged>>

\* &request[..len - 2]
RequestText == SubSeq(request, 1, len - 2)

\* parse_request after the loop: from_utf8, the log line, Url::parse and the
\* validation of the URL
ParseUrl ==
    /\ pc = "read_done"
    /\ LET r == IF ~ret.ok THEN ret
                ELSE IF ~ValidUtf8(RequestText)
                    THEN Refuse(59, "Non-UTF-8 request")
                ELSE IF ~IsSome(parsed) THEN Refuse(59, "Invalid URL")
                ELSE validate(parsed[1])
           text == IF ret.ok /\ ValidUtf8(RequestText) THEN RequestText ELSE <<>>
       IN /\ log_line' = Append(log_line, Field("request", text))
          /\ ret' = r
          /\ IF r.ok
             THEN pc' = "send_response" /\ url' = parsed[1]
             ELSE pc' = "handle_err" /\ url' = url
    /\ UNCHANGED <<main_vars, meta_vars, ARGS, stream, parsed, entries, request, path, data, file, wire,
                   write_failed, fsops, logged>>

(***************************************************************************)
(* send_header                                                              *)
(***************************************************************************)
\* the fields send_header adds to the log line and the line it writes;
\* written is whether write_all succeeded
send_header(status, meta, written) ==
    /\ log_line' = log_line \o <<Field("status", status), Field("meta", meta)>>
    /\ wire' = IF written THEN Append(wire, Header(status, meta)) ELSE wire
    /\ write_failed' = (write_failed \/ ~written)

\* the Result of a send_header
Sent(written) == IF written THEN Ok ELSE Err("write")

\* handle: Err((status, msg)) => self.send_header(status, msg).await
HandleErr ==
    /\ pc = "handle_err"
    /\ \E written \in BOOLEAN :
        /\ send_header(ret.status, ret.meta, written)
        /\ ret' = Sent(written)
    /\ pc' = "returned"
    /\ UNCHANGED <<main_vars, meta_vars, ARGS, stream, parsed, entries, request, url, path, data, file, fsops,
                   logged>>

(***************************************************************************)
(* list_directory: the lines of a listing.                                  *)
(***************************************************************************)
\* the byte value of a character of a listing line
Ord(c) ==
    CASE c = "\n" -> 10 [] c = " " -> 32 [] c = "%" -> 37 [] c = "." -> 46
      [] c = "/" -> 47 [] c = "0" -> 48 [] c = "2" -> 50 [] c = "=" -> 61
      [] c = ">" -> 62 [] c = "a" -> 97 [] c = "b" -> 98

\* String's Ord: byte-wise lexicographic, a proper prefix first
RECURSIVE LexLess(_, _, _)
LexLess(x, y, i) ==
    IF i > Len(y) THEN FALSE
    ELSE IF i > Len(x) THEN TRUE
    ELSE IF Ord(x[i]) # Ord(y[i]) THEN Ord(x[i]) < Ord(y[i])
    ELSE LexLess(x, y, i + 1)

\* percent_encode(name.as_bytes(), &ENCODE_SET): of the characters of a name
\* only the space is in ENCODE_SET
RECURSIVE percent_encode(_)
percent_encode(name) ==
    IF name = <<>> THEN <<>>
    ELSE (IF name[1] = " " THEN <<"%", "2", "0">> ELSE <<name[1]>>)
         \o percent_encode(Tail(name))

DirEntry(name, is_dir) == [name |-> name, is_dir |-> is_dir]

\* the line of one entry that is not skipped
Line(entry) ==
    LET name == IF entry.is_dir THEN Append(entry.name, "/") ELSE entry.name
        link == percent_encode(name)
    IN  IF link # name
        THEN <<"=", ">", " ">> \o link \o <<" ">> \o name \o <<"\n">>
        ELSE <<"=", ">", " ">> \o link \o <<"\n">>

\* the while loop: the lines in enumeration order, dotted names skipped
RECURSIVE Lines(_)
Lines(es) ==
    IF es = <<>> THEN <<>>
    ELSE IF es[1].name[1] = "." THEN Lines(Tail(es))
    ELSE <<Line(es[1])>> \o Lines(Tail(es))

RECURSIVE Insert(_, _)
Insert(sorted, x) ==
    IF sorted = <<>> THEN <<x>>
    ELSE IF LexLess(x, sorted[1], 1) THEN <<x>> \o sorted
    ELSE <<sorted[1]>> \o Insert(Tail(sorted), x)

\* the lines left in the order of enumeration
unsorted(lines) == lines

\* lines.sort()
RECURSIVE sort(_)
sort(lines) ==
    IF lines = <<>> THEN <<>>
    ELSE Insert(sort(Tail(lines)), lines[1])

(***************************************************************************)
(* send_response                                                            *)
(***************************************************************************)
NotFound == Meta(<<"Not found, sorry.">>)

\* the path, the loop over the segments and the serve_secret test
SendResponse ==
    /\ pc = "send_response"
    /\ LET r == IF IsSome(url.segments)
                THEN Walk(BasePath(url), url.segments[1], 1)
                ELSE Step("none", BasePath(url))
       IN /\ path' = r.path
          /\ CASE r.outcome = "utf8" ->
                    /\ ret' = Err("utf8")
                    /\ pc' = "returned"
                    /\ UNCHANGED <<log_line, wire, write_failed>>
               [] r.outcome = "reject" ->
                    /\ \E written \in BOOLEAN :
                        /\ send_header(51, NotFound, written)
                        /\ ret' = Sent(written)
                    /\ pc' = "returned"
               [] r.outcome = "next" ->
                    /\ pc' = IF ARGS.serve_secret THEN "metadata" ELSE "exists"
                    /\ UNCHANGED <<log_line, wire, write_failed, ret>>
               [] OTHER ->
                    /\ pc' = "metadata"
                    /\ UNCHANGED <<log_line, wire, write_failed, ret>>
    /\ UNCHANGED <<main_vars, meta_vars, ARGS, stream, parsed, entries, request, url, data, file,
                   fsops, logged>>

\* !self.metadata.lock().await.exists(&path) && segments.any(...)
Exists ==
    /\ pc = "exists"
    /\ \E exists \in BOOLEAN :
        /\ fsops' = fsops \cup {Op("exists", path, IF exists THEN "true" ELSE "false")}
        /\ IF ~exists /\ AnyHidden(url.segments[1])
           THEN /\ \E written \in BOOLEAN :
                    /\ send_header(52,
                            Meta(<<"If I told you, it would not be a secret.">>),
                            written)
                    /\ ret' = Sent(written)
                /\ pc' = "returned"
           ELSE /\ pc' = "metadata"
                /\ UNCHANGED <<log_line, wire, write_failed, ret>>
    /\ UNCHANGED <<main_vars, meta_vars, ARGS, stream, parsed, entries, request, url, path, data,
                   file, logged>>

\* tokio::fs::metadata(&path) and the directory branch
Metadata ==
    /\ pc = "metadata"
    /\ \E kind \in {"error", "file", "dir"}, index, marker \in BOOLEAN :
        LET stat == Op("metadata", path, kind)
            index_path == push(path, index_gmi)
            marker_path == with_file_name(index_path, listing_ok)
            no_index == Op("exists_file", index_path, "false")
        IN
        IF kind # "dir"
        THEN /\ pc' = "get"
             /\ fsops' = fsops \cup {stat}
             /\ UNCHANGED <<path, log_line, wire, write_failed, ret>>
        ELSE IF ~EndsWithSlashOrEmpty(url)
        THEN /\ \E written \in BOOLEAN :
                /\ send_header(31, [text |-> <<>>,
                                    url |-> Some(WithTrailingSlash(url))],
                               written)
                /\ ret' = Sent(written)
             /\ pc' = "returned"
             /\ fsops' = fsops \cup {stat}
             /\ path' = path
        ELSE IF index
        THEN /\ path' = index_path
             /\ pc' = "get"
             /\ fsops' = fsops \cup {stat, Op("exists_file", index_path, "true")}
             /\ UNCHANGED <<log_line, wire, write_failed, ret>>
        ELSE IF marker
        THEN /\ path' = pop(index_path)
             /\ pc' = "list_directory"
             /\ fsops' = fsops \cup {stat, no_index,
                                     Op("exists_file", marker_path, "true")}
             /\ UNCHANGED <<log_line, wire, write_failed, ret>>
        ELSE /\ path' = index_path
             /\ \E written \in BOOLEAN :
                /\ send_header(51, Meta(<<"Directory index disabled.">>), written)
                /\ ret' = Sent(written)
             /\ pc' = "returned"
             /\ fsops' = fsops \cup {stat, no_index,
                                     Op("exists_file", marker_path, "false")}
    /\ UNCHANGED <<main_vars, meta_vars, ARGS, stream, parsed, entries, request, url, data, file,
                   logged>>

\* a get without the FullHeader arm: the file is opened whatever the override
GetThenOpen ==
    /\ pc = "get"
    /\ \E d \in Presets :
        /\ fsops' = fsops \cup {Op("get", path, d.kind)}
        /\ data' = d
    /\ pc' = "open"
    /\ UNCHANGED <<main_vars, meta_vars, ARGS, stream, parsed, entries, request,
                   url, path, file, logged, log_line, wire, write_failed, ret>>

\* let data = self.metadata.lock().await.get(&path), and the FullHeader arm
Get ==
    /\ pc = "get"
    /\ \E d \in Presets :
        /\ fsops' = fsops \cup {Op("get", path, d.kind)}
        /\ data' = d
        /\ IF d.kind = "FullHeader"
           THEN /\ \E written \in BOOLEAN :
                    /\ send_header(d.status, Meta(d.text), written)
                    /\ ret' = Sent(written)
                /\ pc' = "returned"
           ELSE /\ pc' = "open"
                /\ UNCHANGED <<log_line, wire, write_failed, ret>>
    /\ UNCHANGED <<main_vars, meta_vars, ARGS, stream, parsed, entries, request, url, path, file,
                   logged>>

\* path.extension() == Some(OsStr::new("gmi"))
ExtensionIsGmi(p) == p[Len(p)] = "index.gmi"

\* a MIME type that is always guessed, whatever the override
MimeGuessed(d, p) == <<"mime_guess">> \o d.text

\* the MIME type of the success header
Mime(d, p) ==
    IF d.kind = "FullMime" THEN d.text
    ELSE IF ExtensionIsGmi(p) THEN <<"text/gemini">> \o d.text
    ELSE <<"mime_guess">> \o d.text

FileContents == {<<>>, <<"byte">>}

\* an open whose failure arm sends 51 and goes on to copy the body
OpenWithoutReturn ==
    /\ pc = "open"
    /\ \E opened, written \in BOOLEAN, content \in FileContents :
        /\ fsops' = fsops \cup {Op("open", path, IF opened THEN "ok" ELSE "error")}
        /\ file' = content
        /\ send_header(IF opened THEN 20 ELSE 51,
                       IF opened THEN Meta(Mime(data, path)) ELSE NotFound,
                       written)
        /\ ret' = Sent(written)
        /\ pc' = IF written THEN "copy" ELSE "returned"
    /\ UNCHANGED <<main_vars, meta_vars, ARGS, stream, parsed, entries, request, url, path,
                   data, logged>>

\* a success header that is sent before the file is opened
OpenAfterHeader ==
    /\ pc = "open"
    /\ \E opened, written \in BOOLEAN, content \in FileContents :
        /\ fsops' = fsops \cup {Op("open", path, IF opened THEN "ok" ELSE "error")}
        /\ send_header(20, Meta(Mime(data, path)), written)
        /\ file' = IF opened /\ written THEN content ELSE file
        /\ ret' = IF ~written THEN Err("write")
                  ELSE IF ~opened THEN Err("open") ELSE Ok
        /\ pc' = IF opened /\ written THEN "copy" ELSE "returned"
    /\ UNCHANGED <<main_vars, meta_vars, ARGS, stream, parsed, entries, request,
                   url, path, data, logged>>

\* tokio::fs::File::open(&path) and the header that follows it
Open ==
    /\ pc = "open"
    /\ \E opened, written \in BOOLEAN, content \in FileContents :
        /\ fsops' = fsops \cup {Op("open", path, IF opened THEN "ok" ELSE "error")}
        /\ IF ~opened
           THEN /\ send_header(51, NotFound, written)
                /\ ret' = IF written THEN Err("open") ELSE Err("write")
                /\ pc' = "returned"
                /\ file' = file
           ELSE /\ file' = content
                /\ send_header(20, Meta(Mime(data, path)), written)
                /\ ret' = Sent(written)
                /\ pc' = IF written THEN "copy" ELSE "returned"
    /\ UNCHANGED <<main_vars, meta_vars, ARGS, stream, parsed, entries, request, url, path, data,
                   logged>>

\* tokio::io::copy(&mut file, &mut self.stream)
Copy ==
    /\ pc = "copy"
    /\ \E outcome \in {"ok", "read_error", "write_error"} :
        /\ wire' = IF outcome = "ok" THEN Append(wire, Body("file", file)) ELSE wire
        /\ write_failed' = (write_failed \/ outcome = "write_error")
        /\ ret' = IF outcome = "ok" THEN Ok ELSE Err(outcome)
    /\ pc' = "returned"
    /\ UNCHANGED <<main_vars, meta_vars, ARGS, stream, parsed, entries, request, log_line, url, path,
                   data, file, fsops, logged>>

(***************************************************************************)
(* list_directory                                                           *)
(***************************************************************************)
\* log::info!("Listing directory {:?}", path) and
\* self.send_header(20, "text/gemini").await?
ListDirectory ==
    /\ pc = "list_directory"
    /\ logged' = Append(logged,
            [level |-> "info", line |-> <<Field("listing", path)>>])
    /\ \E written \in BOOLEAN :
        /\ send_header(20, Meta(<<"text/gemini">>), written)
        /\ ret' = Sent(written)
        /\ pc' = IF written THEN "read_dir" ELSE "returned"
    /\ UNCHANGED <<main_vars, meta_vars, ARGS, stream, parsed, entries, request, url, path, data,
                   file, fsops>>

\* read_dir, the loop over the entries, the sort and the writes
ReadDir ==
    /\ pc = "read_dir"
    /\ \E outcome \in {"ok", "read_dir_error", "entry_error", "write_error"} :
        /\ fsops' = fsops \cup {Op("read_dir", path,
                                   IF outcome = "read_dir_error" THEN "error" ELSE "ok")}
        /\ wire' = IF outcome = "ok"
                   THEN Append(wire, Body("listing", sort(Lines(entries))))
                   ELSE wire
        /\ write_failed' = (write_failed \/ outcome = "write_error")
        /\ ret' = IF outcome = "ok" THEN Ok ELSE Err(outcome)
    /\ pc' = "returned"
    /\ UNCHANGED <<main_vars, meta_vars, ARGS, stream, parsed, entries, request, log_line, url, path,
                   data, file, logged>>

(***************************************************************************)
(* handle: the log record of the connection                                 *)
(***************************************************************************)
\* a handle that answers an error of send_response with one more status line
FinishWithErrorHeader ==
    /\ pc = "returned"
    /\ \E shutdown, written \in BOOLEAN :
        IF ~ret.ok
        THEN /\ send_header(51, NotFound, written)
             /\ logged' = Append(logged,
                    [level |-> "warn",
                     line |-> Append(log_line', Field("error", ret.error))])
        ELSE /\ logged' = Append(logged,
                    IF ~shutdown
                    THEN [level |-> "warn",
                          line |-> Append(log_line, Field("error", "shutdown"))]
                    ELSE [level |-> "info", line |-> log_line])
             /\ UNCHANGED <<log_line, wire, write_failed>>
    /\ pc' = "closed"
    /\ UNCHANGED <<main_vars, meta_vars, ARGS, stream, parsed, entries, request, url, path,
                   data, file, ret, fsops>>

\* the Result of the request becomes the log record; a connection that
\* answered without error is shut down first
Finish ==
    /\ pc = "returned"
    /\ \E shutdown \in BOOLEAN :
        logged' = Append(logged,
            IF ~ret.ok
            THEN [level |-> "warn",
                  line |-> Append(log_line, Field("error", ret.error))]
            ELSE IF ~shutdown
            THEN [level |-> "warn",
                  line |-> Append(log_line, Field("error", "shutdown"))]
            ELSE [level |-> "info", line |-> log_line])
    /\ pc' = "closed"
    /\ UNCHANGED <<main_vars, meta_vars, ARGS, stream, parsed, entries, request, log_line, url, path,
                   data, file, wire, write_failed, ret, fsops>>

(***************************************************************************)
(* The shared metadata: Arc<Mutex<FileOptions>>.  Every connection task     *)
(* looks up its path at most twice, with exists and then with get, each    *)
(* time under the lock.  FileOptions reads the configuration of a           *)
(* directory on the first lookup that needs it, one rule at a time.         *)
(***************************************************************************)
Tasks == 1..NTasks

Dirs == {"d1", "d2"}

\* the rules in the configuration file of a directory
ConfigFile(d) == IF d = "d1" THEN <<"rule1", "rule2">> ELSE <<"rule3">>

TaskAt(phase, at) == [phase |-> phase, at |-> at]

NextPhase(phase) == IF phase = "exists" THEN "get" ELSE "done"

\* a lock that does not wait for the holder to release
lock_unguarded(t) ==
    /\ tpc[t].phase # "done"
    /\ tpc[t].at = "lock"
    /\ mutex' = Some(t)
    /\ tpc' = [tpc EXCEPT ![t].at = "call"]
    /\ UNCHANGED <<cache, parses, tdir, seen, conn_vars, main_vars>>

\* self.metadata.lock().await: the task goes on once the mutex is free
lock(t) ==
    /\ mutex = None
    /\ tpc[t].phase # "done"
    /\ tpc[t].at = "lock"
    /\ mutex' = Some(t)
    /\ tpc' = [tpc EXCEPT ![t].at = "call"]
    /\ UNCHANGED <<cache, parses, tdir, seen, conn_vars, main_vars>>

\* !ARGS.serve_secret is false, or the URL has no path segments: exists is
\* not called
SkipExists(t) ==
    /\ tpc[t] = TaskAt("exists", "lock")
    /\ tpc' = [tpc EXCEPT ![t].phase = "get"]
    /\ \E d \in Dirs : tdir' = [tdir EXCEPT ![t] = d]
    /\ UNCHANGED <<mutex, cache, parses, seen, conn_vars, main_vars>>

\* exists or get: is the directory's rule set cached?
Call(t) ==
    /\ tpc[t].at = "call"
    /\ IF cache[tdir[t]] = None
       THEN /\ parses' = [parses EXCEPT ![tdir[t]] = @ + 1]
            /\ cache' = [cache EXCEPT ![tdir[t]] = Some(<<>>)]
            /\ tpc' = [tpc EXCEPT ![t].at = "load"]
       ELSE /\ tpc' = [tpc EXCEPT ![t].at = "find"]
            /\ UNCHANGED <<parses, cache>>
    /\ UNCHANGED <<mutex, tdir, seen, conn_vars, main_vars>>

\* the next rule of the configuration file is parsed and stored
LoadRule(t) ==
    /\ tpc[t].at = "load"
    /\ LET d == tdir[t]
           rules == cache[d][1]
       IN IF Len(rules) < Len(ConfigFile(d))
          THEN /\ cache' = [cache EXCEPT
                        ![d] = Some(Append(rules, ConfigFile(d)[Len(rules) + 1]))]
               /\ tpc' = tpc
          ELSE /\ tpc' = [tpc EXCEPT ![t].at = "find"]
               /\ cache' = cache
    /\ UNCHANGED <<mutex, parses, tdir, seen, conn_vars, main_vars>>

\* the rule for the path is looked for in the directory's rule set
Find(t) ==
    /\ tpc[t].at = "find"
    /\ seen' = [seen EXCEPT ![t] = Append(@, [dir |-> tdir[t],
                                              rules |-> cache[tdir[t]]])]
    /\ tpc' = [tpc EXCEPT ![t].at = "unlock"]
    /\ UNCHANGED <<mutex, cache, parses, tdir, conn_vars, main_vars>>

\* a MutexGuard that lives on after the condition or statement
unlock_kept(t) ==
    /\ tpc[t].at = "unlock"
    /\ mutex' = mutex
    /\ tpc' = [tpc EXCEPT ![t] = TaskAt(NextPhase(tpc[t].phase), "io")]
    /\ \E d \in Dirs : tdir' = [tdir EXCEPT ![t] = d]
    /\ UNCHANGED <<cache, parses, seen, conn_vars, main_vars>>

\* the MutexGuard is dropped at the end of the condition or statement, and
\* the task goes on to its next await on the socket or the filesystem
unlock(t) ==
    /\ tpc[t].at = "unlock"
    /\ mutex' = None
    /\ tpc' = [tpc EXCEPT ![t] = TaskAt(NextPhase(tpc[t].phase), "io")]
    /\ \E d \in Dirs : tdir' = [tdir EXCEPT ![t] = d]
    /\ UNCHANGED <<cache, parses, seen, conn_vars, main_vars>>

\* an await on the socket, the stat, the open or the copy returns: the task
\* goes on to its next lookup, or its request ends there (a refusal, a
\* redirect, a listing, an error, or the response after get)
Io(t) ==
    /\ tpc[t].at = "io"
    /\ \E ends \in BOOLEAN :
        tpc' = [tpc EXCEPT ![t] =
                    IF ends \/ tpc[t].phase = "done"
                    THEN TaskAt("done", "finished")
                    ELSE TaskAt(tpc[t].phase, "lock")]
    /\ UNCHANGED <<mutex, cache, parses, tdir, seen, conn_vars, main_vars>>

(***************************************************************************)
(* Specifications.  The inputs of a connection are fixed in the initial     *)
(* state: the configuration, the bytes the client sends, the URL those      *)
(* bytes parse to and the directory that is listed.                         *)
(***************************************************************************)
Configs ==
    {Args(h, s, l) : h \in Hostnames, s \in BOOLEAN, l \in BOOLEAN}

\* one request line with its CRLF, and a client that closes before the CRLF
GoodStream == <<"u", "CR", "LF">>

MainStreams == {GoodStream, <<"u">>}

\* the directory of the spec's listing example: b.gmi, a.gmi, .hidden, c/
ExampleDir ==
    <<DirEntry(<<"b">>, FALSE), DirEntry(<<"a">>, FALSE),
      DirEntry(<<".", "a">>, FALSE), DirEntry(<<"a", " ">>, TRUE)>>

Start ==
    /\ pc = "new"
    /\ request = <<>>
    /\ log_line = <<>>
    /\ url = NoUrl
    /\ path = <<>>
    /\ data = default
    /\ file = <<>>
    /\ wire = <<>>
    /\ write_failed = FALSE
    /\ ret = Ok
    /\ fsops = {}
    /\ logged = <<>>

\* no task is looking anything up, and main is in its accept loop with no
\* other connection accepted
MetaIdle ==
    /\ listening = TRUE
    /\ others = [t \in Tasks |-> "idle"]
    /\ mutex = None
    /\ cache = [d \in Dirs |-> None]
    /\ parses = [d \in Dirs |-> 0]
    /\ tpc = [t \in Tasks |-> TaskAt("done", "lock")]
    /\ tdir = [t \in Tasks |-> "d1"]
    /\ seen = [t \in Tasks |-> <<>>]

\* every configuration and every combination of the validated URL fields;
\* every URL path under the configurations that differ for send_response
Init ==
    /\ Start
    /\ MetaIdle
    /\ entries = ExampleDir
    /\ \/ /\ ARGS \in Configs
          /\ stream \in MainStreams
          /\ parsed \in {None} \cup {Some(u) : u \in HeadUrls}
       \/ /\ ARGS \in {c \in Configs : ~c.log_ips}
          /\ stream = GoodStream
          /\ parsed \in {Some(u) : u \in PathUrls}

Next ==
    \/ NewPeerError
    \/ New
    \/ Read
    \/ ReadZero
    \/ ReadError
    \/ ParseUrl
    \/ HandleErr
    \/ SendResponse
    \/ Exists
    \/ Metadata
    \/ Get
    \/ Open
    \/ Copy
    \/ ListDirectory
    \/ ReadDir
    \/ Finish

vars == <<conn_vars, meta_vars, main_vars>>

Spec == Init /\ [][Next]_vars

\* a few URLs that between them take every branch of send_response
ReadUrls ==
    {Url("gemini", "", None, None, Some("h1"), None, segs) :
        segs \in {None, Some(<<(<<"a">>)>>), Some(<<(<<".", "a">>)>>),
                  Some(<<(<<"%2F">>)>>), Some(<<(<<"%FF">>)>>)}}
    \cup {Url("https", "", None, None, Some("h1"), None, None)}

\* every byte stream of a client and every way to divide it into reads, with
\* a request text that is no URL or is the URL of /a; and the well-formed
\* stream with the URLs above
InitRead ==
    /\ Start
    /\ MetaIdle
    /\ entries = ExampleDir
    /\ \/ /\ ARGS = Args(<<"h1">>, FALSE, FALSE)
          /\ stream \in Streams
          /\ parsed \in {None, Some(Url("gemini", "", None, None, Some("h1"),
                                        None, Some(<<(<<"a">>)>>)))}
       \/ /\ ARGS \in {Args(<<"h1">>, FALSE, l) : l \in BOOLEAN}
          /\ stream = GoodStream
          /\ parsed \in {Some(u) : u \in ReadUrls}

SpecRead == InitRead /\ [][Next]_vars

\* the tasks of several connections and their metadata lookups
InitMeta ==
    /\ ARGS = Args(<<"h1">>, FALSE, FALSE)
    /\ stream = <<>>
    /\ parsed = None
    /\ entries = <<>>
    /\ pc = "closed"
    /\ request = <<>>
    /\ log_line = <<>>
    /\ url = NoUrl
    /\ path = <<>>
    /\ data = default
    /\ file = <<>>
    /\ wire = <<>>
    /\ write_failed = FALSE
    /\ ret = Ok
    /\ fsops = {}
    /\ logged = <<>>
    /\ listening = TRUE
    /\ others = [t \in Tasks |-> "idle"]
    /\ mutex = None
    /\ cache = [d \in Dirs |-> None]
    /\ parses = [d \in Dirs |-> 0]
    /\ tpc = [t \in Tasks |-> TaskAt("exists", "io")]
    /\ tdir \in [Tasks -> Dirs]
    /\ seen = [t \in Tasks |-> <<>>]

NextMeta ==
    \E t \in Tasks :
        \/ lock(t)
        \/ SkipExists(t)
        \/ Call(t)
        \/ LoadRule(t)
        \/ Find(t)
        \/ unlock(t)
        \/ Io(t)

SpecMeta == InitMeta /\ [][NextMeta]_vars

\* a task that can take the mutex, or go on with its lookup under it, does
\* so in the end.  Nothing makes an await on a socket return: a client may
\* stall for ever.
SpecMetaFair ==
    /\ SpecMeta
    /\ \A t \in Tasks :
        WF_vars(lock(t) \/ Call(t) \/ LoadRule(t) \/ Find(t) \/ unlock(t))

(***************************************************************************)
(* Properties.                                                              *)
(***************************************************************************)
IsHeader(x) == x.kind = "header"

Headers == SelectSeq(wire, IsHeader)

IsStatusField(f) == f.field = "status"

\* the status codes send_header wrote to the log line: one per execution
StatusFields == SelectSeq(log_line, IsStatusField)

BodySent == \E i \in 1..Len(wire) : ~IsHeader(wire[i])

\* send_response has been entered and has acted
Responded ==
    pc \in {"exists", "metadata", "get", "open", "copy", "list_directory",
            "read_dir", "returned", "closed"}

\* the path p is content_dir, then the host directory when there are several
\* hostnames, then only names that are not empty, ".", ".." or undecodable
Confined(p) ==
    LET ps == Pieces(p) IN
    /\ ps[1] = content_dir
    /\ Len(ARGS.hostnames) > 1 => Len(ps) >= 2 /\ ps[2] = <<url.host[1]>>
    /\ \A i \in 2..Len(ps) :
        /\ ps[i] \notin {<<>>, <<".">>, <<".", ".">>}
        /\ \A j \in 1..Len(ps[i]) : ps[i][j] # "FF"

\* C1: in every state the path send_response has built, and the path of
\* every metadata lookup, stat, open and directory read made so far, is a
\* lexical descendant of content_dir (of the host directory under it when
\* several hostnames are configured).
C1_PathConfined ==
    /\ path # <<>> => Confined(path)
    /\ \A o \in fsops : Confined(o.path)

\* C1's case: under virtual hosts a file two directories below the host
\* directory has been opened.
C1_Witness ==
    \E o \in fsops :
        /\ o.op = "open"
        /\ Len(ARGS.hostnames) > 1
        /\ Len(Pieces(o.path)) = 4

DecodesToSeparator(segment) ==
    \E i \in 1..Len(segment) : is_separator(DecodeChar(segment[i]))

\* C2: once send_response has acted on a URL one of whose segments decodes to
\* text with a path separator (every segment being decodable), status 51 has
\* been sent and no lookup, stat or open was made.
C2_SeparatorRejected ==
    ( /\ Responded
      /\ IsSome(url.segments)
      /\ \E i \in 1..Len(url.segments[1]) : DecodesToSeparator(url.segments[1][i])
      /\ \A i \in 1..Len(url.segments[1]) :
            decode_utf8_ok(percent_decode(url.segments[1][i])) )
    => /\ pc \in {"returned", "closed"}
       /\ fsops = {}
       /\ Len(StatusFields) = 1
       /\ StatusFields[1].value = 51

\* a name below the root of p starts with a dot
Dotted(p) ==
    \E i \in 2..Len(Pieces(p)) : Pieces(p)[i] # <<>> /\ Pieces(p)[i][1] = "."

\* C3: with serve_secret off, once exists has answered false for a resolved
\* path that has a name starting with a dot, status 52 has been sent and
\* nothing else was looked up, opened, listed or written.
C3_HiddenRefused ==
    \A o \in fsops :
        ( /\ o.op = "exists"
          /\ o.answer = "false"
          /\ Dotted(o.path)
          /\ ~ARGS.serve_secret )
        => /\ pc \in {"returned", "closed"}
           /\ fsops = {o}
           /\ Len(StatusFields) = 1
           /\ StatusFields[1].value = 52
           /\ ~BodySent

\* C4: a connection whose TLS handshake completed and on which no write
\* failed is closed only after a status line was written to it.
C4_StatusBeforeClose ==
    (pc = "closed" /\ log_line # <<>> /\ ~write_failed) => Len(Headers) >= 1

\* C5: at most one status line is written to the connection, and send_header
\* is executed at most once.
C5_OneHeader ==
    /\ Len(Headers) <= 1
    /\ Len(StatusFields) <= 1

\* C5's case: the file could not be opened after its 51 was sent, and the
\* connection ended with that one status line.
C5_Witness ==
    /\ pc = "closed"
    /\ ~ret.ok
    /\ ret.error = "open"
    /\ Len(Headers) = 1
    /\ Headers[1].status = 51

IsCRLFAt(s, i) == i + 1 <= Len(s) /\ s[i] = "CR" /\ s[i + 1] = "LF"

\* the client sends more than ReqLimit bytes before any CRLF
TooLong(s) ==
    /\ Len(s) > ReqLimit
    /\ \A i \in 1..Len(s) : IsCRLFAt(s, i) => i - 1 > ReqLimit

\* C6: when the client sends more than the limit before any CRLF, however
\* its bytes are divided into reads, parse_request fails with status 59,
\* send_response is never entered and nothing is looked up or opened.
C6_TooLongRefused ==
    TooLong(stream) =>
        /\ pc \notin {"send_response", "exists", "metadata", "get", "open",
                      "copy", "list_directory", "read_dir"}
        /\ url = NoUrl
        /\ fsops = {}
        /\ pc \in {"read_done", "handle_err"} => ~ret.ok /\ ret.status = 59
        /\ \A i \in 1..Len(StatusFields) : StatusFields[i].value = 59

\* C6's case: the buffer filled without a CRLF and 59 was answered.
C6_Witness ==
    /\ TooLong(stream)
    /\ len = BufSize
    /\ pc = "closed"
    /\ Len(Headers) = 1
    /\ Headers[1].status = 59

\* the first CRLF of the stream comes after at most ReqLimit bytes
WithinLimit(s) == \E i \in 1..Len(s) : IsCRLFAt(s, i) /\ i - 1 <= ReqLimit

\* C7: when the first CRLF comes after at most the limit, the read loop is
\* over once that CRLF is in the buffer, and when it ends well the request
\* text is exactly the bytes before that CRLF.
C7_StopsAtFirstCRLF ==
    WithinLimit(stream) =>
        /\ pc = "parse_request" => len < BytesBeforeCRLF(stream) + 2
        /\ (pc = "read_done" /\ ret.ok) =>
                RequestText = SubSeq(stream, 1, BytesBeforeCRLF(stream))

\* the checks of the claim, in its order, and the status each gives
FailedCheck(u, i) ==
    CASE i = 1 -> u.scheme # "gemini"
      [] i = 2 -> u.username # "" \/ u.password # None \/ u.fragment # None
      [] i = 3 -> u.host = None
      [] i = 4 -> /\ u.host # None
                  /\ ARGS.hostnames # <<>>
                  /\ \A k \in 1..Len(ARGS.hostnames) : ARGS.hostnames[k] # u.host[1]
      [] i = 5 -> u.port # None /\ u.port # Some(LocalPort)

CheckStatus == <<53, 59, 59, 53, 53>>

\* parse_request has come to its end on a request text that parsed as a URL
UrlChecked ==
    /\ pc \in {"handle_err", "send_response"}
    /\ log_line[Len(log_line)].value # <<>>
    /\ parsed # None

\* C8: a parsed URL is refused with the status of the first check it fails,
\* in the order scheme (53), userinfo or fragment (59), host presence (59),
\* host allow-list (53), port (53), and is returned for send_response only
\* when it fails none.
C8_FirstFailingCheck ==
    UrlChecked =>
        LET u == parsed[1]
            failed == {i \in 1..5 : FailedCheck(u, i)}
        IN IF failed = {}
           THEN pc = "send_response" /\ url = u
           ELSE /\ pc = "handle_err"
                /\ \E i \in failed :
                    /\ \A k \in failed : i <= k
                    /\ ret.status = CheckStatus[i]

\* C8's case: a URL that fails both the allow-list check and the port check
\* is refused with the message of the allow-list check.
C8_Witness ==
    /\ UrlChecked
    /\ parsed[1].scheme = "gemini"
    /\ parsed[1].username = ""
    /\ parsed[1].password = None
    /\ parsed[1].fragment = None
    /\ parsed[1].host = Some("h3")
    /\ parsed[1].port = Some(OtherPort)
    /\ ARGS.hostnames = <<"h1", "h2">>
    /\ ret.status = 53
    /\ ret.meta = Meta(<<"Proxy request refused">>)

IsSuccess(status) == status \in 20..29

\* C9 as stated: body bytes are on the wire only after a 2x status line, and
\* a connection that ended without any error after a 2x status line carries
\* the body.
C9_BodyIffSuccess ==
    /\ BodySent => Len(Headers) = 1 /\ IsHeader(wire[1]) /\ IsSuccess(wire[1].status)
    /\ ( /\ pc = "closed"
         /\ logged[Len(logged)].level = "info"
         /\ Len(Headers) = 1
         /\ IsSuccess(Headers[1].status) )
       => BodySent

\* C9 amended: body bytes are on the wire only after a status line 20, and
\* a connection that ended without any error after a 2x status line carries
\* the body unless that status line is a FullHeader override.
C9_BodyOnlyAfterSuccess ==
    /\ BodySent => /\ Len(wire) = 2
                   /\ IsHeader(wire[1])
                   /\ wire[1].status = 20
                   /\ ~IsHeader(wire[2])
    /\ ( /\ pc = "closed"
         /\ logged[Len(logged)].level = "info"
         /\ Len(Headers) = 1
         /\ IsSuccess(Headers[1].status)
         /\ data.kind # "FullHeader" )
       => BodySent

\* C9's case: a file was served, status line 20 first and then its bytes.
C9_Witness ==
    /\ pc = "closed"
    /\ wire = <<Header(20, Meta(<<"mime_guess", ";lang=en">>)),
                Body("file", <<"byte">>)>>

\* C10: each directory's configuration is parsed at most once; a task that
\* holds the lock and reads the cache finds each entry absent or complete;
\* and every lookup of a directory observed its complete rule set.
C10_ParsedOnce ==
    /\ \A d \in Dirs : parses[d] <= 1
    /\ \A t \in Tasks :
        tpc[t].at \in {"call", "find"} =>
            cache[tdir[t]] \in {None, Some(ConfigFile(tdir[t]))}
    /\ \A t \in Tasks : \A i \in 1..Len(seen[t]) :
        seen[t][i].rules = Some(ConfigFile(seen[t][i].dir))

\* C10's case: one task is part-way through reading d1's configuration
\* while another waits for the lock to make its first lookup, also in d1.
C10_Witness ==
    \E t, u \in Tasks :
        /\ t # u
        /\ tpc[t].at = "load"
        /\ tdir[t] = "d1"
        /\ cache["d1"] = Some(<<"rule1">>)
        /\ tpc[u] = TaskAt("exists", "lock")
        /\ tdir[u] = "d1"
        /\ seen[u] = <<>>

\* the request URL with '/' appended to its path
UrlWithSlash(u) == [u EXCEPT !.segments = Some(u.segments[1] \o <<(<<>>)>>)]

\* the URL path is not empty and does not end in '/'
NeedsSlash(u) ==
    /\ u.segments # None
    /\ u.segments[1][Len(u.segments[1])] # <<>>

IsMetaField(f) == f.field = "meta"

\* the meta texts send_header wrote to the log line
MetaFields == SelectSeq(log_line, IsMetaField)

InDir(dir, name) == dir \o <<"/", name>>

\* the answer the existence test of the file p got, if it was made
Answered(p, answer) == Op("exists_file", p, answer) \in fsops

ListingSent == \E i \in 1..Len(wire) : wire[i].kind = "listing"

\* C12: once the stat of the resolved path has answered "directory" for a
\* URL whose path is empty or ends in '/', index.gmi has been tested in that
\* directory.  If it exists, the request goes on as for the regular file
\* index.gmi: the override is got for it and it is opened, and nothing is
\* listed.  Otherwise the marker .directory-listing-ok has been tested: if
\* it exists the directory itself is listed after a status 20 text/gemini
\* and no file is opened; if not, the one status sent is 51 "Directory index
\* disabled." and nothing is listed, got or opened.
C12_DirectoryIndex ==
    \A o \in fsops :
        (o.op = "metadata" /\ o.answer = "dir" /\ ~NeedsSlash(url)) =>
            LET dir == o.path
                index == InDir(dir, "index.gmi")
                marker == InDir(dir, ".directory-listing-ok")
                later == {q \in fsops : q.op \in {"get", "open", "read_dir"}}
            IN
            /\ Answered(index, "true") \/ Answered(index, "false")
            /\ Answered(index, "true") =>
                /\ pc \in {"get", "open", "copy", "returned", "closed"}
                /\ path = index
                /\ ~Answered(marker, "true") /\ ~Answered(marker, "false")
                /\ \A q \in later : q.op \in {"get", "open"} /\ q.path = index
                /\ pc \in {"open", "copy"} => Op("get", index, data.kind) \in fsops
                /\ pc = "copy" => Op("open", index, "ok") \in fsops
                /\ ~ListingSent
            /\ (Answered(index, "false") /\ Answered(marker, "true")) =>
                /\ pc \in {"list_directory", "read_dir", "returned", "closed"}
                /\ path = dir
                /\ \A q \in later : q.op = "read_dir" /\ q.path = dir
                /\ \A i \in 1..Len(StatusFields) : StatusFields[i].value = 20
                /\ \A i \in 1..Len(MetaFields) :
                        MetaFields[i].value = Meta(<<"text/gemini">>)
                /\ pc \in {"read_dir", "returned", "closed"} => Len(StatusFields) = 1
                /\ ListingSent => wire[1] = Header(20, Meta(<<"text/gemini">>))
            /\ Answered(index, "false") =>
                Answered(marker, "true") \/ Answered(marker, "false")
            /\ (Answered(index, "false") /\ Answered(marker, "false")) =>
                /\ pc \in {"returned", "closed"}
                /\ later = {}
                /\ Len(StatusFields) = 1
                /\ StatusFields[1].value = 51
                /\ MetaFields[1].value = Meta(<<"Directory index disabled.">>)
                /\ wire = IF write_failed THEN <<>>
                          ELSE <<Header(51, Meta(<<"Directory index disabled.">>))>>

\* C12's case: /a/ is a directory without index.gmi and with the marker, and
\* its listing followed the status line.
C12_Witness ==
    /\ pc = "closed"
    /\ url.segments = Some(<<(<<"a">>), <<>>>>)
    /\ Answered(<<"content", "/", "a", "/", "index.gmi">>, "false")
    /\ Answered(<<"content", "/", "a", "/", ".directory-listing-ok">>, "true")
    /\ Op("read_dir", <<"content", "/", "a">>, "ok") \in fsops
    /\ Len(wire) = 2
    /\ wire[1] = Header(20, Meta(<<"text/gemini">>))
    /\ wire[2].kind = "listing"

(***************************************************************************)
(* Directory listings: every directory of at most MaxEntries entries with   *)
(* distinct names, files and subdirectories, in every enumeration order.    *)
(***************************************************************************)
EntryNames ==
    {<<"a">>, <<"b">>, <<".", "a">>, <<"a", " ">>, <<"b", ".">>}

DirEntries == {DirEntry(n, d) : n \in EntryNames, d \in BOOLEAN}

\* what read_dir may yield: no name twice
Listings ==
    UNION {{es \in [1..k -> DirEntries] :
                \A i, j \in 1..k : es[i].name = es[j].name => i = j}
           : k \in 0..MaxEntries}

\* the URL of /a/
DirUrl == Url("gemini", "", None, None, Some("h1"), None, Some(<<(<<"a">>), <<>>>>))

\* every directory listed for /a/; and the example directory with requests
\* that take the other branches
InitList ==
    /\ Start
    /\ MetaIdle
    /\ \/ /\ ARGS = Args(<<"h1">>, FALSE, FALSE)
          /\ stream = GoodStream
          /\ parsed = Some(DirUrl)
          /\ entries \in Listings
       \/ /\ ARGS \in {Args(<<"h1">>, FALSE, l) : l \in BOOLEAN}
          /\ stream \in MainStreams
          /\ parsed \in {Some(u) : u \in ReadUrls}
          /\ entries = ExampleDir

SpecList == InitList /\ [][Next]_vars

\* the lines of the listing on the wire
ListingBody == wire[2].meta.text

IsDotted(e) == e.name[1] = "."

\* the entries of es in the order pi
Permuted(es, pi) == [i \in 1..Len(es) |-> es[pi[i]]]

Orders(n) ==
    {pi \in [1..n -> 1..n] : \A i, j \in 1..n : pi[i] = pi[j] => i = j}

EndsWith(s, t) ==
    /\ Len(s) >= Len(t)
    /\ SubSeq(s, Len(s) - Len(t) + 1, Len(s)) = t

\* C13: a listing on the wire has exactly one line for each entry whose name
\* does not start with '.', that line ending in the entry's name, with '/'
\* appended when the entry is a directory, and in a newline; it has no other
\* line; its lines are in strictly ascending byte-wise order; and it is what
\* list_directory makes of every other enumeration order of the same
\* entries.
C13_ListingSorted ==
    ListingSent =>
        LET body == ListingBody
            shown == {i \in 1..Len(entries) : ~IsDotted(entries[i])}
        IN
        /\ Len(body) = Cardinality(shown)
        /\ \A i \in shown :
            /\ Cardinality({k \in 1..Len(body) : body[k] = Line(entries[i])}) = 1
            /\ EndsWith(Line(entries[i]),
                        <<" ">> \o entries[i].name
                        \o (IF entries[i].is_dir THEN <<"/">> ELSE <<>>)
                        \o <<"\n">>)
        /\ \A k \in 1..Len(body) : \E i \in shown : body[k] = Line(entries[i])
        /\ \A k \in 1..(Len(body) - 1) : LexLess(body[k], body[k + 1], 1)
        /\ \A pi \in Orders(Len(entries)) :
            body = sort(Lines(Permuted(entries, pi)))

\* C13's case: the directory holds b, a subdirectory a and the dotted .a,
\* read in that order; the listing has the line of a/ before that of b.
C13_Witness ==
    /\ ListingSent
    /\ entries = <<DirEntry(<<"b">>, FALSE), DirEntry(<<"a">>, TRUE),
                   DirEntry(<<".", "a">>, FALSE)>>
    /\ ListingBody = << <<"=", ">", " ", "a", "/", "\n">>,
                        <<"=", ">", " ", "b", "\n">> >>

\* the meta the claim gives a file at path p whose override is d
ExpectedMime(d, p) ==
    CASE d.kind = "FullMime" -> d.text
      [] d.kind = "Parameters" /\ EndsWith(p, <<"index.gmi">>) ->
            <<"text/gemini">> \o d.text
      [] d.kind = "Parameters" /\ ~EndsWith(p, <<"index.gmi">>) ->
            <<"mime_guess">> \o d.text

\* C14: once the file at the resolved path has been opened successfully, its
\* override is not a FullHeader, send_header has been executed exactly once,
\* with status 20 and as meta the FullMime string, or else the guessed type
\* (text/gemini for .gmi) followed by the Parameters string; what is on the
\* wire is that status line followed by nothing but the bytes of the file,
\* and when the connection ends without error both are there.
C14_FileServed ==
    Op("open", path, "ok") \in fsops =>
        LET header == Header(20, Meta(ExpectedMime(data, path))) IN
        /\ data.kind \in {"FullMime", "Parameters"}
        /\ Op("get", path, data.kind) \in fsops
        /\ pc \in {"copy", "returned", "closed"}
        /\ StatusFields = <<Field("status", 20)>>
        /\ MetaFields = <<Field("meta", header.meta)>>
        /\ wire \in {<<>>, <<header>>, <<header, Body("file", file)>>}
        /\ wire = <<>> => write_failed
        /\ (pc \in {"returned", "closed"} /\ ret.ok) =>
                wire = <<header, Body("file", file)>>

\* C14's case: index.gmi of a directory was served with the default
\* parameters, as text/gemini.
C14_Witness ==
    /\ pc = "closed"
    /\ Op("open", <<"content", "/", "index.gmi">>, "ok") \in fsops
    /\ data = default
    /\ wire = <<Header(20, Meta(<<"text/gemini", ";lang=en">>)),
                Body("file", <<"byte">>)>>

\* the names of the fields of a log record, in order
FieldNames(line) == [i \in 1..Len(line) |-> line[i].field]

\* C15: a connection that has not ended has written no log record; one that
\* has ended has written exactly one, and its fields are, in order, the
\* local address, the remote address or "-", the request text (empty, or the
\* bytes read before the final CRLF), the status and the meta, followed by
\* nothing or by the error tag alone.
C15_OneLogRecord ==
    /\ pc # "closed" => logged = <<>>
    /\ pc = "closed" =>
        /\ Len(logged) = 1
        /\ FieldNames(logged[1].line) \in
                {<<"local", "peer", "request", "status", "meta">>,
                 <<"local", "peer", "request", "status", "meta", "error">>}
        /\ logged[1].line[1].value = local_addr
        /\ logged[1].line[2].value \in {"ip", "-"}
        /\ logged[1].line[3].value \in {<<>>, SubSeq(request, 1, len - 2)}

Decodable(segment) == decode_utf8_ok(percent_decode(segment))

TrailingSeparator(text) == text # <<>> /\ text[Len(text)] = "/"

\* the decoded segment is exactly one normal component, with no separator
\* after it
OneNormal(segment) ==
    LET text == percent_decode(segment)
        cs == components(text)
    IN /\ Len(cs) = 1
       /\ cs[1].kind = "Normal"
       /\ ~TrailingSeparator(text)

NoComponent(segment) == components(percent_decode(segment)) = <<>>

\* the segments of the request URL
Segs == IF IsSome(url.segments) THEN url.segments[1] ELSE <<>>

\* send_response has answered 51 "Not found" and has served nothing
Rejected51 ==
    /\ pc \in {"returned", "closed"}
    /\ fsops = {}
    /\ StatusFields = <<Field("status", 51)>>
    /\ wire = IF write_failed THEN <<>> ELSE <<Header(51, NotFound)>>

\* C16 as stated: once send_response has acted on a URL whose segments all
\* decode, one of which is not exactly one normal component without a
\* trailing separator, status 51 has been sent and nothing was looked up,
\* opened or written besides.
C16_OneNormalOrRejected ==
    ( /\ Responded
      /\ \A i \in 1..Len(Segs) : Decodable(Segs[i])
      /\ \E i \in 1..Len(Segs) : ~OneNormal(Segs[i]) )
    => Rejected51

\* the first segment that does not decode or is neither empty nor exactly
\* one normal component; Len(segs) + 1 when there is none
RECURSIVE FirstBad(_, _)
FirstBad(segs, i) ==
    IF i > Len(segs) THEN i
    ELSE IF Decodable(segs[i]) /\ (NoComponent(segs[i]) \/ OneNormal(segs[i]))
        THEN FirstBad(segs, i + 1)
    ELSE i

\* the names of the segments that have a component, in order
RECURSIVE Names(_)
Names(segs) ==
    IF segs = <<>> THEN <<>>
    ELSE IF NoComponent(segs[1]) THEN Names(Tail(segs))
    ELSE <<"/">> \o components(percent_decode(segs[1]))[1].name
         \o Names(Tail(segs))

\* C16 amended: a segment that decodes to no component at all (the empty
\* segment) is skipped and one that decodes to exactly one normal component
\* without a trailing separator adds that component to the path; the first
\* segment of any other shape makes the response 51 with nothing served when
\* its text decodes, and when it does not decode nothing is served either;
\* only a URL without such a segment gets beyond the segment loop, with the
\* path made of the components of its segments.
C16_OneNormalOrEmptyOrRejected ==
    (Responded /\ url # NoUrl) =>
        LET bad == FirstBad(Segs, 1) IN
        IF bad > Len(Segs)
        THEN /\ path \in {BasePath(url) \o Names(Segs),
                          BasePath(url) \o Names(Segs) \o <<"/", "index.gmi">>}
             /\ \A o \in fsops : o.op \in {"exists", "metadata"} =>
                    o.path = BasePath(url) \o Names(Segs)
        ELSE IF Decodable(Segs[bad])
        THEN Rejected51
        ELSE /\ pc \in {"returned", "closed"}
             /\ fsops = {}
             /\ wire = <<>>

\* C16's case: the segment a%2F, which decodes to one normal component
\* followed by a separator, was answered with 51.
C16_Witness ==
    /\ pc = "closed"
    /\ url.segments = Some(<<(<<"a", "%2F">>)>>)
    /\ wire = <<Header(51, NotFound)>>
    /\ fsops = {}

(***************************************************************************)
(* main: the accept loop and the tasks of the other connections.  The       *)
(* connection of conn_vars is one accepted connection, followed in full;    *)
(* each other connection is followed from its accept through its task's     *)
(* RequestHandle::new to the end of its handle.                             *)
(***************************************************************************)
\* listener.accept().await? answers a connection, and its task is spawned
Accept(t) ==
    /\ listening
    /\ others[t] = "idle"
    /\ others' = [others EXCEPT ![t] = "new"]
    /\ UNCHANGED <<listening, conn_vars, meta_vars>>

\* listener.accept().await? answers an error: main returns, and the runtime
\* with all its tasks is dropped
AcceptError ==
    /\ listening
    /\ listening' = FALSE
    /\ others' = [t \in Tasks |->
                    IF others[t] \in {"new", "handling"} THEN "aborted"
                    ELSE others[t]]
    /\ UNCHANGED <<conn_vars, meta_vars>>

\* RequestHandle::new in the task of another connection: the handshake
\* succeeds, or fails and the task ends with the 00 log line
TaskNew(t) ==
    /\ listening
    /\ others[t] = "new"
    /\ \E accepted \in BOOLEAN :
        others' = [others EXCEPT ![t] = IF accepted THEN "handling"
                                        ELSE "tls_failed"]
    /\ UNCHANGED <<listening, conn_vars, meta_vars>>

\* handle in the task of another connection, to its log record
TaskHandle(t) ==
    /\ listening
    /\ others[t] = "handling"
    /\ others' = [others EXCEPT ![t] = "done"]
    /\ UNCHANGED <<listening, conn_vars, meta_vars>>

\* the tasks run while main does
NextAccept ==
    \/ listening /\ Next
    \/ AcceptError
    \/ \E t \in Tasks :
        \/ Accept(t)
        \/ TaskNew(t)
        \/ TaskHandle(t)

InitAccept ==
    /\ Start
    /\ MetaIdle
    /\ entries = ExampleDir
    /\ ARGS \in {Args(<<"h1">>, FALSE, l) : l \in BOOLEAN}
    /\ stream \in MainStreams
    /\ parsed \in {Some(u) : u \in ReadUrls}

SpecAccept == InitAccept /\ [][NextAccept]_vars

\* the handshake of the connection failed: its record has the TLS error tag
TlsFailed ==
    /\ pc = "closed"
    /\ logged # <<>>
    /\ logged[1].line[Len(logged[1].line)].field = "error"
    /\ logged[1].line[Len(logged[1].line)].value = "tls"

\* the step is the failure of a handshake, of this or of another connection
TlsFailureStep(t) ==
    IF t = 0 THEN ~TlsFailed /\ TlsFailed'
    ELSE others[t] = "new" /\ others'[t] = "tls_failed"

InitLoop ==
    /\ Start
    /\ MetaIdle
    /\ entries = ExampleDir
    /\ ARGS \in {Args(<<"h1">>, FALSE, l) : l \in BOOLEAN}
    /\ stream \in Streams
    /\ parsed = None

NextLoop ==
    \/ NewPeerError
    \/ New
    \/ Read
    \/ ReadZero
    \/ ReadError

SpecLoop ==
    InitLoop /\ [][NextLoop]_vars /\ WF_vars(Read \/ ReadZero)

\* C18: the buffer never holds more than BufSize bytes; a pass through the
\* loop that does not leave it adds at least one byte; the loop is left with
\* Ok only when the bytes read end in CRLF and otherwise with 59, the buffer
\* being full, the client having closed or the read having failed; and when
\* reads keep returning the loop is always left.
C18_ReadLoopTerminates ==
    /\ [](len <= BufSize)
    /\ [](pc = "read_done" =>
            IF ret.ok THEN EndsWithCRLF(request)
            ELSE ret.status = 59 /\ ~EndsWithCRLF(request))
    /\ [][(pc = "parse_request" /\ pc' = "parse_request") =>
            Len(request') > Len(request)]_vars
    /\ (pc = "parse_request") ~> (pc = "read_done")

\* C18's case: the buffer filled up without a CRLF at its end, and the loop
\* was left with an error.
C18_Witness ==
    /\ pc = "read_done"
    /\ len = BufSize
    /\ ~EndsWithCRLF(request)
    /\ ~ret.ok

\* C19: once get has answered FullHeader(status, meta) for the path,
\* send_header has been executed exactly once, with that status and meta;
\* that status line is all that is on the wire (nothing is, when its write
\* failed); and the file was neither opened nor read, and nothing was
\* listed.
C19_FullHeaderNoFile ==
    Op("get", path, "FullHeader") \in fsops =>
        /\ data.kind = "FullHeader"
        /\ pc \in {"returned", "closed"}
        /\ StatusFields = <<Field("status", data.status)>>
        /\ MetaFields = <<Field("meta", Meta(data.text))>>
        /\ wire = IF write_failed THEN <<>>
                  ELSE <<Header(data.status, Meta(data.text))>>
        /\ \A o \in fsops : o.op \notin {"open", "read_dir"}
        /\ file = <<>>

\* C19's case: the override of /a is the full header "51 Gone", and that
\* line alone was sent.
C19_Witness ==
    /\ pc = "closed"
    /\ Op("get", <<"content", "/", "a">>, "FullHeader") \in fsops
    /\ wire = <<Header(51, Meta(<<"Gone">>))>>

\* list_directory has been entered: its log line was written
ListingStarted == \E i \in 1..Len(logged) : logged[i].line[1].field = "listing"

\* a status line 20 is on the wire
Sent20 == \E i \in 1..Len(Headers) : Headers[i].status = 20

\* the last field of the connection's log record is the error tag tag
ErrorTag(tag) ==
    LET line == logged[Len(logged)].line IN
    /\ line[Len(line)].field = "error"
    /\ line[Len(line)].value = tag

\* C20 as stated: status 20 outside a listing is sent only once the file
\* has been opened; and once the open has failed, the one status sent is 51,
\* no body is sent, and the connection's log record ends in the open error.
C20_OpenBeforeSuccess ==
    /\ (Sent20 /\ ~ListingStarted) => Op("open", path, "ok") \in fsops
    /\ Op("open", path, "error") \in fsops =>
        /\ StatusFields = <<Field("status", 51)>>
        /\ ~BodySent
        /\ pc = "closed" => ErrorTag("open")

\* C20 amended: status 20 that is neither that of a listing nor that of a
\* FullHeader override is sent only once the file has been opened; and once
\* the open has failed, send_header has been executed exactly once, with 51
\* "Not found", no body is sent, send_response has returned an error, and
\* the connection's log record ends in the open error when the status line
\* was written and in the write error when it was not.
C20_OpenBeforeGuessedSuccess ==
    /\ (Sent20 /\ ~ListingStarted /\ data.kind # "FullHeader") =>
            Op("open", path, "ok") \in fsops
    /\ Op("open", path, "error") \in fsops =>
        /\ pc \in {"returned", "closed"}
        /\ StatusFields = <<Field("status", 51)>>
        /\ MetaFields = <<Field("meta", NotFound)>>
        /\ wire = IF write_failed THEN <<>> ELSE <<Header(51, NotFound)>>
        /\ ~ret.ok
        /\ ret.error = IF write_failed THEN "write" ELSE "open"
        /\ pc = "closed" =>
            /\ logged[Len(logged)].level = "warn"
            /\ ErrorTag(IF write_failed THEN "write" ELSE "open")

\* C20's case: the file of /a could not be opened; 51 was sent and the log
\* record ends in the open error.
C20_Witness ==
    /\ pc = "closed"
    /\ Op("open", <<"content", "/", "a">>, "error") \in fsops
    /\ wire = <<Header(51, NotFound)>>
    /\ ErrorTag("open")

\* the read loop was left because the connection was closed or a read
\* failed before the buffer was full
ReadFailed ==
    /\ log_line # <<>>
    /\ pc \notin {"new", "parse_request"}
    /\ ~EndsWithCRLF(request)
    /\ len < BufSize

\* C21: once a read has failed or found the connection closed, nothing is
\* written to the connection and nothing is looked up or opened, and the
\* connection's log record ends in an error tag; once a write has failed,
\* the request has come to its end with that write error, which is the
\* error tag of the log record.
C21_TransportFailureAborts ==
    /\ ReadFailed =>
        /\ StatusFields = <<>>
        /\ wire = <<>>
        /\ fsops = {}
        /\ pc = "closed" =>
                logged[Len(logged)].line[Len(logged[Len(logged)].line)].field
                    = "error"
    /\ write_failed =>
        /\ pc \in {"returned", "closed"}
        /\ ~ret.ok
        /\ ret.error \in {"write", "write_error"}
        /\ pc = "closed" => ErrorTag(ret.error)

\* the task t holds the mutex
Holds(t) == mutex = Some(t)

\* C22: a task that is awaiting the socket or the filesystem, or that has
\* finished, does not hold the mutex; a task that holds it is inside one
\* exists or get call, and gives it up before it goes on to its next lookup;
\* and a task that waits for the mutex gets it, whatever the clients of the
\* other connections do.
C22_LockOnlyDuringLookup ==
    /\ [](\A t \in Tasks : tpc[t].at \in {"io", "finished"} => ~Holds(t))
    /\ [](\A t \in Tasks :
            Holds(t) => tpc[t].at \in {"call", "load", "find", "unlock"})
    /\ [][\A t \in Tasks :
            (Holds(t) /\ Holds(t)') => tpc'[t].phase = tpc[t].phase]_vars
    /\ \A t \in Tasks :
        (tpc[t].at = "lock" /\ tpc[t].phase # "done") ~> Holds(t)

\* C22's case: the client of one connection has not sent its request yet,
\* and meanwhile the task of another connection holds the mutex for its get.
C22_Witness ==
    \E t, u \in Tasks :
        /\ t # u
        /\ tpc[t] = TaskAt("exists", "io")
        /\ Holds(u)
        /\ tpc[u] = TaskAt("get", "find")

=============================================================================
